---- MODULE Spec2Model ----
(***************************************************************************)
(* A model of maptalks' Layer base class (src/src/layer/Layer.js): the     *)
(* attach / load / remove lifecycle, the renderer it owns, show()/hide()   *)
(* with their renderend-deferred events, and the fire() override that      *)
(* mirrors every event to the owning map.                                  *)
(*                                                                         *)
(* Optional JavaScript values (undefined/null or a value) are sequences of *)
(* length at most one: None is nil, Some(v) is the value v.                *)
(*                                                                         *)
(* Every method is an operator from a layer record to a layer record; the  *)
(* record also carries the map-side state the method touches (the map's    *)
(* one-shot renderend callbacks, the subscriptions wired by                *)
(* _switchEvents) and fx, the sequence of observable effects of the call:  *)
(* hook invocations, calls on the renderer, calls on the map, and event    *)
(* deliveries.  An action applies one method to the current record.        *)
(*                                                                         *)
(* Spec follows the lifecycle of one layer with the default options on a   *)
(* map of its own.  SpecCollision adds the use of the collision index,     *)
(* SpecMask the mask, SpecVisible isVisible() under every opacity and zoom *)
(* limit, and SpecZ bringToFront()/bringToBack() among sibling layers of   *)
(* the map's z-ordered list.                                               *)
(***************************************************************************)
EXTENDS Integers, Sequences, FiniteSets, TLC

VARIABLES
    id,             \* this._id
    klass,          \* what the layer's class and renderer registry provide
    collisionScope, \* options.collisionScope
    map,            \* this.map
    zIndex,         \* this._zIndex
    optZIndex,      \* options.zIndex (None: the key is absent)
    visible,        \* options.visible
    opacity,        \* options.opacity: Some(number), or None for no number
    minZoom,        \* options.minZoom
    maxZoom,        \* options.maxZoom
    zoom,           \* map.getZoom()
    renderer,       \* this._renderer: None or Some(instance number)
    loaded,         \* this._loaded
    collisionIndex, \* this._collisionIndex: None or Some(instance number)
    indexBoxes,     \* number of boxes held by the layer's own collision index
    mapBoxes,       \* number of boxes held by the map's shared collision index
    mask,           \* this._mask: None or Some(geometry)
    optMask,        \* options.mask: None or Some(the geometry's JSON)
    layers,         \* map._layers: the map's layer list, in drawing order
    siblingZ,       \* getZIndex() of each sibling layer of that list
    pending,        \* the map's one-shot renderend callbacks, oldest first
    subs,           \* emitters whose events are wired on the map
    removed,        \* renderer instances that were told to remove()
    nextRid,        \* number of the next renderer instance
    nextCi,         \* number of the next CollisionIndex instance
    call,           \* the last call made on the layer, with its inputs
    fx,             \* the observable effects of that call, in order
    thrown,         \* None, or Some(error) when that call threw
    ret,            \* None, or Some(value) the call returned (queries only)
    onLoadTrue,     \* history: onLoad() returned true since the last attach
    layerloadSince, \* history: layerload fired since construction or removal
    lastSetZ,       \* history: None, or Some(argument of the last setZIndex)
    requested       \* history: getCollisionIndex() was called under scope
                    \* "layer": "never", "before" the most recent removal
                    \* only, or "since" it

vars == <<id, klass, collisionScope, map, zIndex, optZIndex, visible,
          opacity, minZoom, maxZoom, zoom,
          renderer, loaded, collisionIndex, indexBoxes, mapBoxes, mask,
          optMask, layers, siblingZ, pending, subs, removed,
          nextRid, nextCi, call, fx, thrown, ret, onLoadTrue,
          layerloadSince, lastSetZ, requested>>

----------------------------------------------------------------------------
(* Bounds *)

MaxRenderers == 2
MaxIndexes == 1
MaxPending == 3
MaxZ == 1
MaxBoxes == 1
MaxSiblings == 2
MaxZoom == 2

----------------------------------------------------------------------------
(* Values *)

None == <<>>
Some(v) == <<v>>

isNil(v) == v = None

\* JavaScript truthiness of an optional boolean and of an optional number
truthy(v) == v = Some(TRUE)
truthyNumber(v) == v # None /\ v # Some(0)

TheMap == Some("map")

\* Emitters that _switchEvents wires on the map
TheLayer == <<"layer">>
Renderer(rid) == <<"renderer", rid>>

\* Members of the map's layer list: this layer and its siblings
This == 0
Siblings == 1..MaxSiblings

\* options.opacity, options.minZoom and options.maxZoom, and the map's zoom
Opacities == {None} \cup {Some(o) : o \in -1..1}
ZoomLimits == {None} \cup {Some(z) : z \in 0..MaxZoom}
Zooms == 0..MaxZoom

isNumber(v) == v # None

ZInputs == {None} \cup {Some(z) : z \in 0..MaxZ}

\* What a layer class and the renderer registry provide.  cap: the class
\* exposes getRendererClass; kind: options.renderer; registered: the renderer
\* class registered under that kind ("none" when the kind is unregistered);
\* events: the layer declares getEvents.
NoCapability == [cap |-> FALSE, kind |-> "canvas", registered |-> "none", events |-> FALSE]
Unregistered == [cap |-> TRUE, kind |-> "gl", registered |-> "none", events |-> TRUE]
CanvasLayer == [cap |-> TRUE, kind |-> "canvas", registered |-> "canvas", events |-> TRUE]
DomLayer == [cap |-> TRUE, kind |-> "dom", registered |-> "dom", events |-> FALSE]

\* The layers the model constructs: a class, an id and a collision scope.
Constructions ==
    << [klass |-> Unregistered, id |-> "a", collisionScope |-> "layer"],
       [klass |-> Unregistered, id |-> "b", collisionScope |-> "map"],
       [klass |-> NoCapability, id |-> "a", collisionScope |-> "layer"],
       [klass |-> CanvasLayer,  id |-> "a", collisionScope |-> "layer"],
       [klass |-> DomLayer,     id |-> "b", collisionScope |-> "map"] >>

\* What the two renderer classes declare: a canvas renderer is a
\* CanvasRenderer with getEvents and onAdd; a dom renderer is a minimal
\* plugin renderer with neither.
rendererHasOnAdd(clazz) == clazz = "canvas"
rendererHasGetEvents(clazz) == clazz = "canvas"
rendererIsCanvas(clazz) == clazz = "canvas"
rendererHasSetToRedraw(clazz) == clazz = "canvas"

\* The geometries offered as a mask: a type and, for a point, whether its
\* symbol is a vector marker
Geometries ==
    { [type |-> "Point", vectorMarker |-> TRUE],
      [type |-> "Point", vectorMarker |-> FALSE],
      [type |-> "LineString", vectorMarker |-> FALSE],
      [type |-> "Polygon", vectorMarker |-> FALSE],
      [type |-> "MultiPolygon", vectorMarker |-> FALSE] }

\* mask.toJSON()
toJSON(g) == <<"json", g.type>>

\* An event payload is a record; fire() called without one gets the empty one.
NoParam == <<>>

\* The current value of the layer and of the map-side state it touches.
L == [id |-> id, klass |-> klass, collisionScope |-> collisionScope,
      map |-> map, zIndex |-> zIndex, optZIndex |-> optZIndex,
      visible |-> visible, opacity |-> opacity, minZoom |-> minZoom,
      maxZoom |-> maxZoom, zoom |-> zoom, renderer |-> renderer, loaded |-> loaded,
      collisionIndex |-> collisionIndex, indexBoxes |-> indexBoxes,
      mapBoxes |-> mapBoxes, mask |-> mask, optMask |-> optMask,
      layers |-> layers, siblingZ |-> siblingZ,
      pending |-> pending, subs |-> subs,
      removed |-> removed, nextRid |-> nextRid, nextCi |-> nextCi,
      onLoadTrue |-> onLoadTrue,
      fx |-> <<>>, thrown |-> None, ret |-> None]

Emit(s, e) == [s EXCEPT !.fx = Append(@, e)]

Throw(s, e) == [s EXCEPT !.thrown = Some(e)]

----------------------------------------------------------------------------
(* Layer.prototype.fire, Layer.js:639-665 *)

\* param after lines 643-648: stamped with type and target when attached
stamp(s, eventType, param) ==
    IF s.map # None
    THEN [type |-> eventType, target |-> TheLayer] @@ param
    ELSE param

\* local dispatch before the mirror to the map
dispatch_localFirst(s, eventType, param) ==
    LET s1 == IF eventType = "layerload" THEN [s EXCEPT !.loaded = TRUE] ELSE s
        s2 == Emit(s1, [k |-> "event", sink |-> "local", type |-> eventType,
                        param |-> IF param = NoParam THEN param
                                  ELSE stamp(s1, eventType, param)])
    IN  IF s2.map # None
        THEN Emit(s2, [k |-> "event", sink |-> "map", type |-> eventType,
                       param |-> stamp(s2, eventType, param)])
        ELSE s2

\* fire() that marks the layer loaded on any event
dispatch_anyEventLoads(s, eventType, param) ==
    LET s1 == [s EXCEPT !.loaded = TRUE]
        s2 == IF s1.map # None
              THEN Emit(s1, [k |-> "event", sink |-> "map", type |-> eventType,
                             param |-> stamp(s1, eventType, param)])
              ELSE s1
    IN  Emit(s2, [k |-> "event", sink |-> "local", type |-> eventType,
                  param |-> IF param = NoParam THEN param
                            ELSE stamp(s2, eventType, param)])

\* lines 640-651: set loaded on layerload, mirror the stamped payload to the
\* map's _onLayerEvent, then dispatch to the layer's own subscribers
dispatch(s, eventType, param) ==
    LET s1 == IF eventType = "layerload" THEN [s EXCEPT !.loaded = TRUE] ELSE s
        s2 == IF s1.map # None
              THEN Emit(s1, [k |-> "event", sink |-> "map", type |-> eventType,
                             param |-> stamp(s1, eventType, param)])
              ELSE s1
    \* fire.apply(this, arguments) passes the caller's payload object: the
    \* stamped one if the caller gave one, none otherwise
    IN  Emit(s2, [k |-> "event", sink |-> "local", type |-> eventType,
                  param |-> IF param = NoParam THEN param
                            ELSE stamp(s2, eventType, param)])

RECURSIVE fire(_, _, _)
fire(s, eventType, param) ==
    LET s1 == dispatch(s, eventType, param)
    IN  IF eventType \in {"show", "hide"}
        THEN fire(s1, "visiblechange",
                  [visible |-> s1.visible] @@ stamp(s1, eventType, param))
        ELSE s1

----------------------------------------------------------------------------
(* Z-index, Layer.js:158-190 *)

\* getZIndex() without the default of line 189
getZIndex_noDefault(s) == s.zIndex

getZIndex(s) == IF truthyNumber(s.zIndex) THEN s.zIndex ELSE Some(0)

\* getZIndex() of a member of the map's list
zOf(s, n) == IF n = This THEN getZIndex(s)[1] ELSE s.siblingZ[n]

\* map._sortLayersByZIndex(): the list ordered by getZIndex(), members with
\* equal z-index keeping the order they had
RECURSIVE insertByZ(_, _, _)
insertByZ(s, sorted, n) ==
    IF sorted = <<>> THEN <<n>>
    ELSE IF zOf(s, sorted[Len(sorted)]) <= zOf(s, n) THEN Append(sorted, n)
    ELSE Append(insertByZ(s, SubSeq(sorted, 1, Len(sorted) - 1), n),
                sorted[Len(sorted)])

RECURSIVE sortByZ(_, _)
sortByZ(s, q) ==
    IF q = <<>> THEN <<>>
    ELSE insertByZ(s, sortByZ(s, SubSeq(q, 1, Len(q) - 1)), q[Len(q)])

sortLayersByZIndex(s) == [s EXCEPT !.layers = sortByZ(s, @)]

\* setZIndex() that fires its event before the re-sort and the renderer call
setZIndex_eventFirst(s, z) ==
    LET s1 == [s EXCEPT !.zIndex = z,
                        !.optZIndex = IF isNil(z) THEN None ELSE z]
        s2 == fire(s1, "setzindex", [zIndex |-> z])
        s3 == IF s2.map # None
              THEN Emit(sortLayersByZIndex(s2),
                        [k |-> "map", n |-> "_sortLayersByZIndex"])
              ELSE s2
    IN  IF s3.renderer # None
        THEN Emit(s3, [k |-> "renderer", n |-> "setZIndex",
                       rid |-> s3.renderer[1], z |-> z])
        ELSE s3

setZIndex(s, z) ==
    LET s1 == [s EXCEPT !.zIndex = z,
                        !.optZIndex = IF isNil(z) THEN None ELSE z]
        s2 == IF s1.map # None
              THEN Emit(sortLayersByZIndex(s1),
                        [k |-> "map", n |-> "_sortLayersByZIndex"])
              ELSE s1
        s3 == IF s2.renderer # None
              THEN Emit(s2, [k |-> "renderer", n |-> "setZIndex",
                             rid |-> s2.renderer[1], z |-> z])
              ELSE s2
    IN  fire(s3, "setzindex", [zIndex |-> z])

\* _getLayerList(), lines 616-621
getLayerList(s) == IF s.map = None THEN <<>> ELSE s.layers

\* bringToFront() without the test that the layer is already on top
bringToFront_noTopTest(s) ==
    LET list == getLayerList(s) IN
    IF Len(list) = 0 THEN s
    ELSE LET topLayer == list[Len(list)] IN
         IF Len(list) = 1 THEN s
         ELSE setZIndex(s, Some(zOf(s, topLayer) + 1))

\* lines 274-286
bringToFront(s) ==
    LET list == getLayerList(s) IN
    IF Len(list) = 0 THEN s
    ELSE LET topLayer == list[Len(list)] IN
         IF Len(list) = 1 \/ topLayer = This THEN s
         ELSE setZIndex(s, Some(zOf(s, topLayer) + 1))

\* bringToBack() that takes the z-index of the bottom layer itself
bringToBack_sameAsBottom(s) ==
    LET list == getLayerList(s) IN
    IF Len(list) = 0 THEN s
    ELSE LET bottomLayer == list[1] IN
         IF Len(list) = 1 \/ bottomLayer = This THEN s
         ELSE setZIndex(s, Some(zOf(s, bottomLayer)))

\* lines 292-304
bringToBack(s) ==
    LET list == getLayerList(s) IN
    IF Len(list) = 0 THEN s
    ELSE LET bottomLayer == list[1] IN
         IF Len(list) = 1 \/ bottomLayer = This THEN s
         ELSE setZIndex(s, Some(zOf(s, bottomLayer) - 1))

----------------------------------------------------------------------------
(* Attach, Layer.js:544-557 and 606-610 *)

\* declares: the emitter has a getEvents method
switchEvents(s, to, emitter, declares) ==
    IF declares /\ s.map # None
    THEN LET s1 == Emit(s, [k |-> "map", n |-> to, emitter |-> emitter])
         IN  [s1 EXCEPT !.subs = IF to = "on" THEN @ \cup {emitter}
                                               ELSE @ \ {emitter}]
    ELSE s

bindMap(s, m, z) ==
    IF m = None THEN s
    ELSE LET s1 == [s EXCEPT !.map = m]
             s2 == IF ~isNil(z) THEN setZIndex(s1, z) ELSE s1
             s3 == switchEvents(s2, "on", TheLayer, s2.klass.events)
             s4 == Emit(s3, [k |-> "hook", n |-> "onAdd", map |-> s3.map])
         IN  fire(s4, "add", NoParam)

\* What the map's addLayer does around _bindMap: the layer joins the map's
\* list, which is sorted again
pushLayer(s) ==
    IF s.map # None /\ \A i \in 1..Len(s.layers) : s.layers[i] # This
    THEN sortLayersByZIndex([s EXCEPT !.layers = Append(@, This)])
    ELSE s

----------------------------------------------------------------------------
(* Renderer lifecycle, Layer.js:88-104, 559-604 *)

\* the class is validated only after the renderer slot is assigned
initRenderer_lateCheck(s) ==
    IF ~s.klass.cap THEN s
    ELSE LET clazz == s.klass.registered
             rid == s.nextRid
             s1 == Emit([s EXCEPT !.renderer = Some(rid), !.nextRid = @ + 1],
                        [k |-> "renderer", n |-> "new", rid |-> rid])
         IN  IF clazz = "none"
             THEN Throw(s1, [name |-> "Error",
                             message |-> <<"Invalid renderer for Layer(", s.id,
                                           "):", s.klass.kind>>])
             ELSE LET s2 == Emit(s1, [k |-> "renderer", n |-> "setZIndex",
                                      rid |-> rid, z |-> getZIndex(s1)])
                      s3 == switchEvents(s2, "on", Renderer(rid),
                                         rendererHasGetEvents(clazz))
                      s4 == IF rendererHasOnAdd(clazz)
                            THEN Emit(s3, [k |-> "renderer", n |-> "onAdd", rid |-> rid])
                            ELSE s3
                      s5 == Emit(s4, [k |-> "hook", n |-> "onRendererCreate",
                                      map |-> s4.map])
                  IN  fire(s5, "renderercreate", [renderer |-> rid])

\* onRendererCreate runs before the renderer's own onAdd
initRenderer_hookFirst(s) ==
    IF ~s.klass.cap THEN s
    ELSE LET clazz == s.klass.registered IN
         IF clazz = "none"
         THEN Throw(s, [name |-> "Error",
                        message |-> <<"Invalid renderer for Layer(", s.id,
                                      "):", s.klass.kind>>])
         ELSE LET rid == s.nextRid
                  s1 == Emit([s EXCEPT !.renderer = Some(rid), !.nextRid = @ + 1],
                             [k |-> "renderer", n |-> "new", rid |-> rid])
                  s2 == Emit(s1, [k |-> "renderer", n |-> "setZIndex",
                                  rid |-> rid, z |-> getZIndex(s1)])
                  s3 == switchEvents(s2, "on", Renderer(rid),
                                     rendererHasGetEvents(clazz))
                  s4 == Emit(s3, [k |-> "hook", n |-> "onRendererCreate",
                                  map |-> s3.map])
                  s5 == IF rendererHasOnAdd(clazz)
                        THEN Emit(s4, [k |-> "renderer", n |-> "onAdd", rid |-> rid])
                        ELSE s4
              IN  fire(s5, "renderercreate", [renderer |-> rid])

initRenderer(s) ==
    IF ~s.klass.cap THEN s
    ELSE LET clazz == s.klass.registered IN
         IF clazz = "none"
         THEN Throw(s, [name |-> "Error",
                        message |-> <<"Invalid renderer for Layer(", s.id,
                                      "):", s.klass.kind>>])
         ELSE LET rid == s.nextRid
                  s1 == Emit([s EXCEPT !.renderer = Some(rid), !.nextRid = @ + 1],
                             [k |-> "renderer", n |-> "new", rid |-> rid])
                  s2 == Emit(s1, [k |-> "renderer", n |-> "setZIndex",
                                  rid |-> rid, z |-> getZIndex(s1)])
                  s3 == switchEvents(s2, "on", Renderer(rid),
                                     rendererHasGetEvents(clazz))
                  s4 == IF rendererHasOnAdd(clazz)
                        THEN Emit(s3, [k |-> "renderer", n |-> "onAdd", rid |-> rid])
                        ELSE s3
                  s5 == Emit(s4, [k |-> "hook", n |-> "onRendererCreate",
                                  map |-> s4.map])
              IN  fire(s5, "renderercreate", [renderer |-> rid])

isCanvasRender(s) ==
    s.renderer # None /\ rendererIsCanvas(s.klass.registered)

\* onLoadRet: what the overridable onLoad() hook returns
load(s, onLoadRet) ==
    IF s.map = None THEN s
    ELSE LET s1 == [Emit(s, [k |-> "hook", n |-> "onLoad", map |-> s.map])
                        EXCEPT !.onLoadTrue = @ \/ onLoadRet] IN
         IF ~onLoadRet THEN s1
         ELSE LET s2 == initRenderer(s1) IN
              IF s2.thrown # None THEN s2
              ELSE LET z == getZIndex(s2) IN
                   IF isNil(z)
                   THEN Emit(s2, [k |-> "hook", n |-> "onLoadEnd", map |-> s2.map])
                   ELSE IF s2.renderer = None
                   \* line 96 dereferences this._renderer, which is undefined
                   THEN Throw(s2, [name |-> "TypeError",
                                   message |-> <<"this._renderer is undefined">>])
                   ELSE LET s3 == Emit(s2, [k |-> "renderer", n |-> "setZIndex",
                                            rid |-> s2.renderer[1], z |-> z])
                            s4 == IF ~isCanvasRender(s3)
                                  THEN Emit(s3, [k |-> "renderer", n |-> "render",
                                                 rid |-> s3.renderer[1]])
                                  ELSE s3
                        IN  Emit(s4, [k |-> "hook", n |-> "onLoadEnd",
                                      map |-> s4.map])

\* _doRemove that leaves the renderer in place
doRemove_keepsRenderer(s) ==
    LET s1 == [s EXCEPT !.loaded = FALSE]
        s2 == switchEvents(s1, "off", TheLayer, s1.klass.events)
        s3 == Emit(s2, [k |-> "hook", n |-> "onRemove", map |-> s2.map])
    IN  [s3 EXCEPT !.map = None, !.collisionIndex = None, !.indexBoxes = 0,
                  !.onLoadTrue = FALSE]

\* onRemove runs after the back-reference is dropped
doRemove_lateHook(s) ==
    LET s1 == [s EXCEPT !.loaded = FALSE]
        s2 == switchEvents(s1, "off", TheLayer, s1.klass.events)
        s4 == IF s2.renderer # None
              THEN LET rid == s2.renderer[1]
                       t1 == switchEvents(s2, "off", Renderer(rid),
                                          rendererHasGetEvents(s2.klass.registered))
                       t2 == Emit(t1, [k |-> "renderer", n |-> "remove",
                                       rid |-> rid])
                   IN  [t2 EXCEPT !.removed = @ \cup {rid}, !.renderer = None]
              ELSE s2
        s5 == [s4 EXCEPT !.map = None, !.collisionIndex = None, !.indexBoxes = 0,
                  !.onLoadTrue = FALSE]
    IN  Emit(s5, [k |-> "hook", n |-> "onRemove", map |-> s5.map])

\* _doRemove that keeps the collision index
doRemove_keepsIndex(s) ==
    LET s1 == [s EXCEPT !.loaded = FALSE]
        s2 == switchEvents(s1, "off", TheLayer, s1.klass.events)
        s3 == Emit(s2, [k |-> "hook", n |-> "onRemove", map |-> s2.map])
        s4 == IF s3.renderer # None
              THEN LET rid == s3.renderer[1]
                       t1 == switchEvents(s3, "off", Renderer(rid),
                                          rendererHasGetEvents(s3.klass.registered))
                       t2 == Emit(t1, [k |-> "renderer", n |-> "remove",
                                       rid |-> rid])
                   IN  [t2 EXCEPT !.removed = @ \cup {rid}, !.renderer = None]
              ELSE s3
    IN  [s4 EXCEPT !.map = None, !.onLoadTrue = FALSE]

doRemove(s) ==
    LET s1 == [s EXCEPT !.loaded = FALSE]
        s2 == switchEvents(s1, "off", TheLayer, s1.klass.events)
        s3 == Emit(s2, [k |-> "hook", n |-> "onRemove", map |-> s2.map])
        s4 == IF s3.renderer # None
              THEN LET rid == s3.renderer[1]
                       t1 == switchEvents(s3, "off", Renderer(rid),
                                          rendererHasGetEvents(s3.klass.registered))
                       t2 == Emit(t1, [k |-> "renderer", n |-> "remove",
                                       rid |-> rid])
                   IN  [t2 EXCEPT !.removed = @ \cup {rid}, !.renderer = None]
              ELSE s3
    IN  [s4 EXCEPT !.map = None, !.collisionIndex = None, !.indexBoxes = 0,
                  !.onLoadTrue = FALSE]

\* remove(), Layer.js:400-405: the map's removeLayer calls _doRemove and
\* takes the layer out of its list
remove(s) ==
    IF s.map # None
    THEN [doRemove(s) EXCEPT !.layers = SelectSeq(@, LAMBDA n : n # This)]
    ELSE s

----------------------------------------------------------------------------
(* Visibility, Layer.js:310-371 *)

\* map.once('renderend', ...): the callback fires eventType on the layer
once(s, eventType) ==
    [Emit(s, [k |-> "map", n |-> "once", type |-> "renderend"])
        EXCEPT !.pending = Append(@, eventType)]

\* show() that never defers its event
show_immediate(s) ==
    IF ~truthy(s.visible)
    THEN LET s1 == [s EXCEPT !.visible = Some(TRUE)]
             s2 == IF s1.renderer # None
                   THEN Emit(s1, [k |-> "renderer", n |-> "show",
                                  rid |-> s1.renderer[1]])
                   ELSE s1
         IN  fire(s2, "show", NoParam)
    ELSE s

\* show() without the test of line 311
show_unguarded(s) ==
    LET s1 == [s EXCEPT !.visible = Some(TRUE)]
        s2 == IF s1.renderer # None
              THEN Emit(s1, [k |-> "renderer", n |-> "show",
                             rid |-> s1.renderer[1]])
              ELSE s1
    IN  IF s2.renderer # None /\ s2.map # None
        THEN once(s2, "show")
        ELSE fire(s2, "show", NoParam)

show(s) ==
    IF ~truthy(s.visible)
    THEN LET s1 == [s EXCEPT !.visible = Some(TRUE)]
             s2 == IF s1.renderer # None
                   THEN Emit(s1, [k |-> "renderer", n |-> "show",
                                  rid |-> s1.renderer[1]])
                   ELSE s1
         IN  IF s2.renderer # None /\ s2.map # None
             THEN once(s2, "show")
             ELSE fire(s2, "show", NoParam)
    ELSE s

\* hide() without the test of line 344
hide_unguarded(s) ==
    LET s1 == [s EXCEPT !.visible = Some(FALSE)]
        s2 == IF s1.renderer # None
              THEN Emit(s1, [k |-> "renderer", n |-> "hide",
                             rid |-> s1.renderer[1]])
              ELSE s1
    IN  IF s2.renderer # None /\ s2.map # None
        THEN once(s2, "hide")
        ELSE fire(s2, "hide", NoParam)

hide(s) ==
    IF truthy(s.visible)
    THEN LET s1 == [s EXCEPT !.visible = Some(FALSE)]
             s2 == IF s1.renderer # None
                   THEN Emit(s1, [k |-> "renderer", n |-> "hide",
                                  rid |-> s1.renderer[1]])
                   ELSE s1
         IN  IF s2.renderer # None /\ s2.map # None
             THEN once(s2, "hide")
             ELSE fire(s2, "hide", NoParam)
    ELSE s

\* isVisible() that lets an opacity of 0 through
isVisible_zeroOpacity(s) ==
    IF isNumber(s.opacity) /\ s.opacity[1] < 0
    THEN [s EXCEPT !.ret = Some(FALSE)]
    ELSE IF /\ s.map # None
            /\ \/ ~isNil(s.maxZoom) /\ s.maxZoom[1] < s.zoom
               \/ ~isNil(s.minZoom) /\ s.minZoom[1] > s.zoom
    THEN [s EXCEPT !.ret = Some(FALSE)]
    ELSE LET s1 == IF isNil(s.visible) THEN [s EXCEPT !.visible = Some(TRUE)]
                   ELSE s
         IN  [s1 EXCEPT !.ret = s1.visible]

\* lines 377-394
isVisible(s) ==
    IF isNumber(s.opacity) /\ s.opacity[1] <= 0
    THEN [s EXCEPT !.ret = Some(FALSE)]
    ELSE IF /\ s.map # None
            /\ \/ ~isNil(s.maxZoom) /\ s.maxZoom[1] < s.zoom
               \/ ~isNil(s.minZoom) /\ s.minZoom[1] > s.zoom
    THEN [s EXCEPT !.ret = Some(FALSE)]
    ELSE LET s1 == IF isNil(s.visible) THEN [s EXCEPT !.visible = Some(TRUE)]
                   ELSE s
         IN  [s1 EXCEPT !.ret = s1.visible]

\* The map fires renderend: every one-shot callback registered so far runs
\* once, in registration order, and is dropped.
RECURSIVE runCallbacks(_, _)
runCallbacks(s, q) ==
    IF q = <<>> THEN s
    ELSE runCallbacks(fire(s, Head(q), NoParam), Tail(q))

renderend(s) == runCallbacks([s EXCEPT !.pending = <<>>], s.pending)

----------------------------------------------------------------------------
(* Mask, Layer.js:420-463 *)

InvalidMask ==
    [name |-> "Error",
     message |-> <<"Mask for a layer must be a marker with vector marker symbol or a Polygon(MultiPolygon).">>]

\* lines 439-445, shared by setMask and removeMask; zooming: map.isZooming()
redrawMask(s, zooming) ==
    IF s.map = None \/ zooming THEN s
    ELSE IF s.renderer # None /\ rendererHasSetToRedraw(s.klass.registered)
    THEN Emit(s, [k |-> "renderer", n |-> "setToRedraw", rid |-> s.renderer[1]])
    ELSE s

\* setMask() that validates the geometry after binding and restyling it
setMask_lateCheck(s, g, zooming) ==
    LET s1 == Emit(s, [k |-> "geometry", n |-> "_bindLayer", g |-> g])
        s2 == Emit(s1, [k |-> "geometry",
                        n |-> IF g.type = "Point" THEN "updateSymbol"
                                                  ELSE "setSymbol",
                        g |-> g])
    IN  IF ~ ( (g.type = "Point" /\ g.vectorMarker)
               \/ g.type = "Polygon" \/ g.type = "MultiPolygon" )
        THEN Throw(s2, InvalidMask)
        ELSE redrawMask([s2 EXCEPT !.mask = Some(g), !.optMask = Some(toJSON(g))],
                        zooming)

setMask(s, g, zooming) ==
    IF ~ ( (g.type = "Point" /\ g.vectorMarker)
           \/ g.type = "Polygon" \/ g.type = "MultiPolygon" )
    THEN Throw(s, InvalidMask)
    ELSE LET s1 == Emit(s, [k |-> "geometry", n |-> "_bindLayer", g |-> g])
             s2 == Emit(s1, [k |-> "geometry",
                             n |-> IF g.type = "Point" THEN "updateSymbol"
                                                       ELSE "setSymbol",
                             g |-> g])
         IN  redrawMask([s2 EXCEPT !.mask = Some(g), !.optMask = Some(toJSON(g))],
                        zooming)

removeMask(s, zooming) ==
    redrawMask([s EXCEPT !.mask = None, !.optMask = None], zooming)

----------------------------------------------------------------------------
(* Collision index, Layer.js:489-513 *)

getCollisionIndex(s) ==
    IF s.collisionScope = "layer"
    THEN LET s1 == IF s.collisionIndex = None
                   THEN [s EXCEPT !.collisionIndex = Some(s.nextCi),
                                  !.nextCi = @ + 1]
                   ELSE s
         IN  [s1 EXCEPT !.ret = Some(<<"layer", s1.collisionIndex[1]>>)]
    ELSE IF s.map = None
         THEN s
         ELSE [s EXCEPT !.ret = Some(<<"map", 0>>)]

\* clearCollisionIndex() that drops the index it cleared
clearCollisionIndex_discards(s) ==
    IF s.collisionScope = "layer" /\ s.collisionIndex # None
    THEN [Emit(s, [k |-> "index", n |-> "clear", inst |-> s.collisionIndex[1]])
            EXCEPT !.indexBoxes = 0, !.collisionIndex = None]
    ELSE s

\* lines 507-513; CollisionIndex.clear() empties the index
clearCollisionIndex(s) ==
    IF s.collisionScope = "layer" /\ s.collisionIndex # None
    THEN [Emit(s, [k |-> "index", n |-> "clear", inst |-> s.collisionIndex[1]])
            EXCEPT !.indexBoxes = 0]
    ELSE s

isLoaded(s) == s.loaded

----------------------------------------------------------------------------
(* The state machine *)

\* One entry per fire() call: its dispatch to the layer's own subscribers
Firings(f) == SelectSeq(f, LAMBDA e : e.k = "event" /\ e.sink = "local")

FiringsOf(f, types) ==
    SelectSeq(f, LAMBDA e : e.k = "event" /\ e.sink = "local" /\ e.type \in types)

\* The call went through _doRemove: its onRemove hook ran
Removal(f) == \E i \in 1..Len(f) : f[i].k = "hook" /\ f[i].n = "onRemove"

\* The argument of the last setZIndex call, read from its setzindex event
LastSetZ(f, prev) ==
    LET q == FiringsOf(f, {"setzindex"})
    IN  IF q = <<>> THEN prev ELSE Some(q[Len(q)].param.zIndex)

\* The type of the last show or hide event a call fired, if it fired one
LastVisibility(f) ==
    LET q == FiringsOf(f, {"show", "hide"})
    IN  IF q = <<>> THEN None ELSE Some(q[Len(q)].type)

Commit(s, c) ==
    /\ id' = s.id
    /\ klass' = s.klass
    /\ collisionScope' = s.collisionScope
    /\ map' = s.map
    /\ zIndex' = s.zIndex
    /\ optZIndex' = s.optZIndex
    /\ visible' = s.visible
    /\ opacity' = s.opacity
    /\ minZoom' = s.minZoom
    /\ maxZoom' = s.maxZoom
    /\ zoom' = s.zoom
    /\ renderer' = s.renderer
    /\ loaded' = s.loaded
    /\ collisionIndex' = s.collisionIndex
    /\ indexBoxes' = s.indexBoxes
    /\ mapBoxes' = s.mapBoxes
    /\ mask' = s.mask
    /\ optMask' = s.optMask
    /\ layers' = s.layers
    /\ siblingZ' = s.siblingZ
    /\ pending' = s.pending
    /\ subs' = s.subs
    /\ removed' = s.removed
    /\ nextRid' = s.nextRid
    /\ nextCi' = s.nextCi
    /\ fx' = s.fx
    /\ thrown' = s.thrown
    /\ ret' = s.ret
    /\ onLoadTrue' = s.onLoadTrue
    /\ layerloadSince' = IF Removal(s.fx) THEN FALSE
                         ELSE layerloadSince
                              \/ FiringsOf(s.fx, {"layerload"}) # <<>>
    /\ lastSetZ' = LastSetZ(s.fx, lastSetZ)
    /\ requested' = IF c.op = "getCollisionIndex" /\ collisionScope = "layer"
                    THEN "since"
                    ELSE IF Removal(s.fx) /\ requested = "since" THEN "before"
                    ELSE requested
    /\ call' = c

\* new Layer(id, options): detached, nothing loaded, no renderer.
InitLayer ==
    /\ \E i \in 1..Len(Constructions) :
            /\ id = Constructions[i].id
            /\ klass = Constructions[i].klass
            /\ collisionScope = Constructions[i].collisionScope
    /\ map = None
    /\ zIndex = None
    /\ optZIndex = zIndex
    /\ visible \in {None, Some(TRUE)}
    /\ renderer = None
    /\ loaded = FALSE
    /\ collisionIndex = None
    /\ indexBoxes = 0
    /\ mapBoxes = 0
    /\ mask = None
    /\ optMask = None
    /\ pending = <<>>
    /\ subs = {}
    /\ removed = {}
    /\ nextRid = 1
    /\ nextCi = 1
    /\ call = [op |-> "new"]
    /\ fx = <<>>
    /\ thrown = None
    /\ ret = None
    /\ onLoadTrue = FALSE
    /\ layerloadSince = FALSE
    /\ lastSetZ = None
    /\ requested = "never"

\* The default options (Layer.js:32-37) and a map at zoom 0
DefaultView ==
    /\ opacity = Some(1)
    /\ minZoom = None
    /\ maxZoom = None
    /\ zoom = 0

NoSiblings ==
    /\ layers = <<>>
    /\ siblingZ = <<>>

\* A layer with the default options on a map with no other layer
Init ==
    /\ InitLayer
    /\ NoSiblings
    /\ DefaultView

\* A layer constructed with any opacity and zoom limits
InitVisible ==
    /\ InitLayer
    /\ klass = CanvasLayer
    /\ NoSiblings
    /\ opacity \in Opacities
    /\ minZoom \in ZoomLimits
    /\ maxZoom \in ZoomLimits
    /\ zoom \in Zooms

\* A map that already holds up to MaxSiblings layers, in z-index order
InitZ ==
    /\ InitLayer
    /\ klass = CanvasLayer
    /\ visible = None
    /\ DefaultView
    /\ \E n \in 0..MaxSiblings :
            /\ siblingZ \in [1..n -> 0..MaxZ]
            /\ layers = sortByZ([zIndex |-> zIndex, siblingZ |-> siblingZ],
                                [i \in 1..n |-> i])

\* _bindMap(map, zIndex) as the map calls it, and with no map at all
BindInputs == {<<None, None>>} \cup {<<TheMap, z>> : z \in ZInputs}

BindMap ==
    \E args \in BindInputs :
        Commit(pushLayer(bindMap(L, args[1], args[2])),
               [op |-> "_bindMap", map |-> args[1], zIndex |-> args[2]])

Load ==
    \E onLoadRet \in BOOLEAN :
        /\ nextRid <= MaxRenderers
        /\ Commit(load(L, onLoadRet), [op |-> "load", onLoad |-> onLoadRet])

SetZIndex ==
    \E z \in ZInputs : Commit(setZIndex(L, z), [op |-> "setZIndex", zIndex |-> z])

BringToFront == Commit(bringToFront(L), [op |-> "bringToFront"])

BringToBack == Commit(bringToBack(L), [op |-> "bringToBack"])

\* setZIndex(z) called on a sibling: the map's list is sorted again
SiblingSetZIndex ==
    \E n \in DOMAIN siblingZ : \E z \in 0..MaxZ :
        Commit(sortLayersByZIndex([L EXCEPT !.siblingZ[n] = z]),
               [op |-> "sibling.setZIndex", layer |-> n, zIndex |-> Some(z)])

Show ==
    /\ Len(pending) < MaxPending
    /\ Commit(show(L), [op |-> "show"])

Hide ==
    /\ Len(pending) < MaxPending
    /\ Commit(hide(L), [op |-> "hide"])

IsVisible == Commit(isVisible(L), [op |-> "isVisible"])

\* The map's zoom changes.
ZoomTo ==
    \E z \in Zooms :
        /\ map # None
        /\ Commit([L EXCEPT !.zoom = z], [op |-> "map.setZoom", zoom |-> z])

RenderEnd == Commit(renderend(L), [op |-> "renderend"])

Remove == Commit(remove(L), [op |-> "remove"])

GetCollisionIndex ==
    /\ collisionScope = "layer" /\ collisionIndex = None => nextCi <= MaxIndexes
    /\ Commit(getCollisionIndex(L), [op |-> "getCollisionIndex"])

SetMask ==
    \E g \in Geometries : \E zooming \in BOOLEAN :
        /\ map = None => ~zooming
        /\ Commit(setMask(L, g, zooming),
                  [op |-> "setMask", mask |-> g, zooming |-> zooming])

RemoveMask ==
    \E zooming \in BOOLEAN :
        /\ map = None => ~zooming
        /\ Commit(removeMask(L, zooming),
                  [op |-> "removeMask", zooming |-> zooming])

ClearCollisionIndex ==
    Commit(clearCollisionIndex(L), [op |-> "clearCollisionIndex"])

\* A renderer inserts a box into the index it got from getCollisionIndex():
\* the layer's own one, or the map's shared one.
InsertBox ==
    \E index \in {"layer", "map"} :
        /\ index = "layer" => collisionIndex # None /\ indexBoxes < MaxBoxes
        /\ index = "map" => map # None /\ mapBoxes < MaxBoxes
        /\ Commit(IF index = "layer" THEN [L EXCEPT !.indexBoxes = @ + 1]
                                     ELSE [L EXCEPT !.mapBoxes = @ + 1],
                  [op |-> "insertBox", index |-> index])

\* A renderer or a subclass fires an event on the layer.
FireEvent ==
    \E t \in {"layerload", "resourceload"} :
        Commit(fire(L, t, NoParam), [op |-> "fire", type |-> t])

Next ==
    \/ BindMap
    \/ Load
    \/ SetZIndex
    \/ Show
    \/ Hide
    \/ RenderEnd
    \/ Remove
    \/ GetCollisionIndex
    \/ FireEvent

Spec == Init /\ [][Next]_vars

\* The collision index over attach, load, removal and the index's own use
NextCollision ==
    \/ BindMap
    \/ Load
    \/ Remove
    \/ GetCollisionIndex
    \/ ClearCollisionIndex
    \/ InsertBox

SpecCollision == Init /\ [][NextCollision]_vars

\* The mask over attach, load and removal
NextMask ==
    \/ BindMap
    \/ Load
    \/ SetMask
    \/ RemoveMask
    \/ Remove

SpecMask == Init /\ [][NextMask]_vars

\* Visibility under opacity and zoom limits
NextVisible ==
    \/ BindMap
    \/ Show
    \/ Hide
    \/ IsVisible
    \/ ZoomTo
    \/ Remove

SpecVisible == InitVisible /\ [][NextVisible]_vars

\* Z-order among the layers of one map
NextZ ==
    \/ BindMap
    \/ SetZIndex
    \/ BringToFront
    \/ BringToBack
    \/ SiblingSetZIndex
    \/ Remove

SpecZ == InitZ /\ [][NextZ]_vars

----------------------------------------------------------------------------
(* Reading the effects of a call *)

\* Every delivery, to the map's aggregator or to the layer's subscribers
Deliveries(f) == SelectSeq(f, LAMBDA e : e.k = "event")

VisibilityFirings(f) ==
    SelectSeq(f, LAMBDA e : e.k = "event" /\ e.sink = "local"
                            /\ e.type \in {"show", "hide"})

TypesOf(f) == [i \in 1..Len(f) |-> f[i].type]

\* onLoad() returned true in a load() that resolved a renderer class
Resolves == klass.cap /\ klass.registered # "none"

----------------------------------------------------------------------------
(* C1 *)

\* C1 as stated: in every reachable state the layer holds a renderer if and
\* only if it is attached and its onLoad hook returned true.
C1_RendererIffAttachedAndOnLoad ==
    (renderer # None) <=> (map # None /\ onLoadTrue)

\* C1, amended: the layer holds a renderer if and only if it is attached and,
\* since it was attached, onLoad returned true in a load() of a class that
\* exposes getRendererClass and has the configured kind registered.
C1_RendererIffResolved ==
    (renderer # None) <=> (map # None /\ onLoadTrue /\ Resolves)

C1_Witness == call.op = "load" /\ renderer # None /\ map # None

----------------------------------------------------------------------------
(* C2 *)

\* C2: on an attached layer with a renderer, a show() or hide() call that
\* changes the visible flag fires no show/hide event during the call and
\* registers one renderend callback; a renderend fires exactly the events of
\* the callbacks registered since the previous renderend, once each and in
\* order, and leaves none registered, so none fires at a later renderend.
C2_DeferredToRenderEnd ==
    [][ /\ ( /\ call'.op \in {"show", "hide"}
             /\ renderer # None /\ map # None
             /\ visible' # visible )
           => /\ VisibilityFirings(fx') = <<>>
              /\ pending' = Append(pending, call'.op)
        /\ call'.op = "renderend"
           => /\ TypesOf(VisibilityFirings(fx')) = pending
              /\ pending' = <<>> ]_vars

C2_Witness ==
    /\ call.op = "renderend"
    /\ Len(VisibilityFirings(fx)) >= 1
    /\ pending = <<>>

----------------------------------------------------------------------------
(* C3 *)

\* C3: every fired show event is followed by a visiblechange event whose
\* visible field is true, and every fired hide event by a visiblechange
\* event whose visible field is false.
C3_MatchingVisibleChange ==
    LET F == Firings(fx) IN
    \A i \in 1..Len(F) :
        F[i].type \in {"show", "hide"} =>
            /\ i < Len(F)
            /\ F[i + 1].type = "visiblechange"
            /\ F[i + 1].param.visible = Some(F[i].type = "show")

----------------------------------------------------------------------------
(* C4 *)

\* C4: every event fired while the layer is attached is delivered, stamped
\* with its type and the layer as target, to the map's aggregator and only
\* then to the layer's own subscribers; while the layer is detached nothing
\* is delivered to an aggregator.  (No call fires an event before it sets
\* the map or after it clears it, so the map after the call is the map at
\* every firing of the call.)
C4_MirrorBeforeLocal ==
    LET D == Deliveries(fx) IN
    IF map # None
    THEN /\ Len(D) % 2 = 0
         /\ \A j \in 1..(Len(D) \div 2) :
                /\ D[2 * j - 1].sink = "map"
                /\ D[2 * j].sink = "local"
                /\ D[2 * j - 1].type = D[2 * j].type
                /\ D[2 * j - 1].param.type = D[2 * j].type
                /\ D[2 * j - 1].param.target = TheLayer
    ELSE \A i \in 1..Len(D) : D[i].sink = "local"

C4_Witness ==
    /\ map # None
    /\ call.op = "fire"
    /\ Len(Deliveries(fx)) = 2

----------------------------------------------------------------------------
(* C5 *)

\* C5 as stated: on an attached layer with a renderer, hide() called while
\* a deferred hide is still waiting for renderend registers a second
\* one-shot callback.
C5_SecondHideRegisters ==
    [][ ( /\ call'.op = "hide"
          /\ renderer # None /\ map # None
          /\ \E i \in 1..Len(pending) : pending[i] = "hide" )
        => pending' = Append(pending, "hide") ]_vars

\* C5, amended: such a hide() registers a second one-shot callback only if
\* a show() made the layer visible again in between; while the layer is
\* still hidden it registers nothing and has no effect.  At the next
\* renderend every registered callback fires its event, in registration
\* order.
C5_SecondHideOnlyAfterShow ==
    [][ /\ ( /\ call'.op = "hide"
             /\ renderer # None /\ map # None
             /\ \E i \in 1..Len(pending) : pending[i] = "hide" )
           => IF truthy(visible)
              THEN /\ pending' = Append(pending, "hide")
                   /\ Firings(fx') = <<>>
              ELSE /\ pending' = pending
                   /\ fx' = <<>>
                   /\ visible' = visible
        /\ ( /\ call'.op = "renderend"
             /\ Len(SelectSeq(pending, LAMBDA t : t = "hide")) >= 2 )
           => /\ TypesOf(VisibilityFirings(fx')) = pending
              /\ \A i \in 1..Len(fx') : fx'[i].k = "event" ]_vars

\* a renderend that fired two deferred hide events
C5_Witness ==
    /\ call.op = "renderend"
    /\ Len(SelectSeq(VisibilityFirings(fx), LAMBDA e : e.type = "hide")) = 2

----------------------------------------------------------------------------
(* C6 *)

\* The layer's own fields
LayerState == <<id, map, zIndex, optZIndex, visible, renderer, loaded,
                collisionIndex>>

\* C6: show() on a visible layer and hide() on a hidden layer leave the
\* visible flag and every other field unchanged, call nothing on the
\* renderer, register no renderend callback and fire no event.
C6_NoOpWhenAlreadyThere ==
    [][ ( \/ call'.op = "show" /\ visible = Some(TRUE)
          \/ call'.op = "hide" /\ visible = Some(FALSE) )
        => /\ LayerState' = LayerState
           /\ fx' = <<>>
           /\ pending' = pending
           /\ subs' = subs ]_vars

\* a show() that did nothing on an attached, visible layer with a renderer
\* while a deferred event was waiting
C6_Witness ==
    /\ call.op = "show"
    /\ fx = <<>>
    /\ visible = Some(TRUE)
    /\ renderer # None /\ map # None
    /\ pending # <<>>

----------------------------------------------------------------------------
(* C7 *)

\* C7: when the class exposes no getRendererClass, load() on an attached
\* layer whose onLoad returns true raises no error and leaves the layer
\* without a renderer.
C7_SilentSkip ==
    ( /\ call.op = "load"
      /\ call.onLoad
      /\ map # None
      /\ ~klass.cap )
    => /\ thrown = None
       /\ renderer = None

----------------------------------------------------------------------------
(* C8 *)

IsHook(e, n) == e.k = "hook" /\ e.n = n
IsFiring(e, t) == e.k = "event" /\ e.sink = "local" /\ e.type = t

\* the error names the kind and the layer id; nothing of the renderer's
\* creation has happened
UnknownRendererFailure ==
    /\ thrown # None
    /\ thrown[1].name = "Error"
    /\ \E i \in 1..Len(thrown[1].message) : thrown[1].message[i] = id
    /\ \E i \in 1..Len(thrown[1].message) : thrown[1].message[i] = klass.kind
    /\ renderer = None
    /\ \A i \in 1..Len(fx) :
           /\ ~IsHook(fx[i], "onRendererCreate")
           /\ ~IsHook(fx[i], "onLoadEnd")
           /\ ~(fx[i].k = "event" /\ fx[i].type = "renderercreate")

\* C8 as stated: when the configured kind has no registered implementation,
\* load() on an attached layer fails with that error.
C8_UnknownRendererFails ==
    ( /\ call.op = "load"
      /\ map # None
      /\ klass.cap /\ klass.registered = "none" )
    => UnknownRendererFailure

\* C8, amended: when the configured kind has no registered implementation,
\* load() on an attached layer whose onLoad returns true fails with an
\* error naming the kind and the layer id, with no renderer attached, no
\* onRendererCreate, no onLoadEnd and no renderercreate event.
C8_UnknownRendererFailsAfterOnLoad ==
    ( /\ call.op = "load"
      /\ call.onLoad
      /\ map # None
      /\ klass.cap /\ klass.registered = "none" )
    => UnknownRendererFailure

C8_Witness ==
    /\ call.op = "load"
    /\ call.onLoad
    /\ thrown # None
    /\ thrown[1].name = "Error"

----------------------------------------------------------------------------
(* C9 *)

\* The steps of a call: hooks, calls on the renderer, the wiring of an
\* emitter on the map, and fired events.
Label(e) ==
    IF e.k = "hook" THEN <<"hook", e.n>>
    ELSE IF e.k = "renderer" THEN <<"renderer", e.n>>
    ELSE IF e.k = "map" /\ e.n = "on" THEN <<"on", e.emitter[1]>>
    ELSE IF e.k = "event" /\ e.sink = "local" THEN <<"event", e.type>>
    ELSE <<>>

Steps(f) == SelectSeq([i \in 1..Len(f) |-> Label(f[i])], LAMBDA x : x # <<>>)

\* every expected step occurs, and the first occurrence of each comes after
\* the first occurrence of the one before it
RECURSIVE InOrder(_, _)
InOrder(expected, steps) ==
    IF expected = <<>> THEN TRUE
    ELSE IF steps = <<>> THEN FALSE
    ELSE IF Head(steps) = Head(expected)
         THEN InOrder(Tail(expected), Tail(steps))
    ELSE IF \E i \in 2..Len(expected) : expected[i] = Head(steps)
         THEN FALSE
    ELSE InOrder(expected, Tail(steps))

\* the order claimed for a successful load(); the wiring and the renderer's
\* onAdd are expected of a renderer class that declares them
LoadOrder(clazz) ==
    <<<<"hook", "onLoad">>, <<"renderer", "new">>, <<"renderer", "setZIndex">>>>
    \o (IF rendererHasGetEvents(clazz) THEN <<<<"on", "renderer">>>> ELSE <<>>)
    \o (IF rendererHasOnAdd(clazz) THEN <<<<"renderer", "onAdd">>>> ELSE <<>>)
    \o <<<<"hook", "onRendererCreate">>, <<"event", "renderercreate">>,
         <<"hook", "onLoadEnd">>>>

LoadDetachedOrRefused ==
    IF map = None
    THEN /\ fx' = <<>>
         /\ LayerState' = LayerState
         /\ pending' = pending /\ subs' = subs /\ nextRid' = nextRid
    ELSE /\ renderer' = renderer
         /\ nextRid' = nextRid
         /\ Steps(fx') = <<<<"hook", "onLoad">>>>

\* C9 as stated: load() on a detached layer changes nothing and invokes no
\* hook; on an attached layer whose onLoad returns false nothing but onLoad
\* runs; if onLoad returns true the steps happen in the fixed order.
C9_LoadSequence ==
    [][ call'.op = "load" =>
          IF map = None \/ ~call'.onLoad
          THEN LoadDetachedOrRefused
          ELSE InOrder(LoadOrder(klass.registered), Steps(fx')) ]_vars

\* C9, amended: the fixed order is that of a load() whose onLoad returns
\* true and whose class resolves the configured kind to a registered
\* renderer class.
C9_LoadSequenceWhenResolved ==
    [][ call'.op = "load" =>
          IF map = None \/ ~call'.onLoad
          THEN LoadDetachedOrRefused
          ELSE Resolves => InOrder(LoadOrder(klass.registered), Steps(fx')) ]_vars

\* a load() of a canvas layer that went through every step
C9_Witness ==
    /\ call.op = "load"
    /\ call.onLoad
    /\ thrown = None
    /\ klass = CanvasLayer
    /\ fx # <<>>
    /\ IsHook(fx[Len(fx)], "onLoadEnd")
    /\ \E i \in 1..Len(fx) : fx[i].k = "renderer" /\ fx[i].n = "onAdd"

----------------------------------------------------------------------------
(* C10 *)

\* C10: after removal the layer has no map, no renderer, no collision index
\* and is not loaded; a renderer that existed was told to remove itself
\* exactly once; onRemove ran while the map was still set.
C10_Removal ==
    [][ (call'.op = "remove" /\ map # None) =>
          /\ map' = None
          /\ renderer' = None
          /\ collisionIndex' = None
          /\ ~loaded'
          /\ Len(SelectSeq(fx', LAMBDA e : e.k = "renderer" /\ e.n = "remove"))
                 = IF renderer # None THEN 1 ELSE 0
          /\ \A i \in 1..Len(fx') :
                 (fx'[i].k = "renderer" /\ fx'[i].n = "remove")
                     => fx'[i].rid = renderer[1]
          /\ \A i \in 1..Len(fx') :
                 (fx'[i].k = "renderer") => fx'[i].n = "remove"
          /\ \E i \in 1..Len(fx') :
                 IsHook(fx'[i], "onRemove") /\ fx'[i].map = map ]_vars

\* a removal that told renderer 1 to remove itself
C10_Witness ==
    /\ call.op = "remove"
    /\ map = None
    /\ removed # {}
    /\ \E i \in 1..Len(fx) : fx[i].k = "renderer" /\ fx[i].n = "remove"

----------------------------------------------------------------------------
(* C11 *)

\* C11: in every reachable state isLoaded() is true exactly when a layerload
\* event has been fired on the layer since its construction or its most
\* recent removal.
C11_LoadedIffLayerloadSince == isLoaded(L) <=> layerloadSince

\* a layer that was loaded, removed, and loaded again by a layerload event
C11_Witness ==
    /\ call.op = "fire" /\ call.type = "layerload"
    /\ isLoaded(L)
    /\ removed # {}

----------------------------------------------------------------------------
(* C12 *)

\* C12 as stated: the layer holds a dedicated collision index if and only if
\* its collision scope is "layer" and getCollisionIndex() has been called at
\* least once.
C12_IndexIffRequestedOnce ==
    (collisionIndex # None)
        <=> (collisionScope = "layer" /\ requested # "never")

\* C12, amended: the layer holds a dedicated collision index if and only if
\* its collision scope is "layer" and getCollisionIndex() has been called
\* since the layer was constructed or, if it was removed, since its most
\* recent removal.
C12_IndexIffRequestedSince ==
    (collisionIndex # None)
        <=> (collisionScope = "layer" /\ requested = "since")

\* a layer that got its index, used it and cleared it
C12_Witness ==
    /\ call.op = "clearCollisionIndex"
    /\ collisionIndex # None
    /\ requested = "since"
    /\ map # None

----------------------------------------------------------------------------
(* C13 *)

\* C13: with scope "layer", getCollisionIndex() returns the index the layer
\* holds, which only a removal replaces, so two calls with no removal between
\* them return the identical instance, and clearCollisionIndex() empties that
\* index and keeps the instance; with any other scope, getCollisionIndex()
\* returns nil when detached and the map's shared index when attached, and
\* clearCollisionIndex() changes neither the shared index nor the layer.
C13_IndexIdentity ==
    [][ /\ (call'.op = "getCollisionIndex" /\ collisionScope = "layer") =>
              /\ collisionIndex' # None
              /\ ret' = Some(<<"layer", collisionIndex'[1]>>)
              /\ collisionIndex # None =>
                    collisionIndex' = collisionIndex /\ indexBoxes' = indexBoxes
        /\ (collisionIndex # None /\ collisionIndex' # collisionIndex) =>
              Removal(fx')
        /\ (call'.op = "clearCollisionIndex" /\ collisionScope = "layer") =>
              /\ collisionIndex' = collisionIndex
              /\ indexBoxes' = 0
        /\ (call'.op = "getCollisionIndex" /\ collisionScope # "layer") =>
              /\ ret' = IF map = None THEN None ELSE Some(<<"map", 0>>)
              /\ collisionIndex' = None
              /\ mapBoxes' = mapBoxes
        /\ (call'.op = "clearCollisionIndex" /\ collisionScope # "layer") =>
              /\ mapBoxes' = mapBoxes
              /\ LayerState' = LayerState
              /\ fx' = <<>> ]_vars

\* the index returned again while it holds a box: it was created by an
\* earlier call and no removal came between
C13_Witness ==
    /\ call.op = "getCollisionIndex"
    /\ ret = Some(<<"layer", 1>>)
    /\ indexBoxes > 0

----------------------------------------------------------------------------
(* C14 *)

\* Nothing of the layer or of the map's list changed and nothing was called
\* or fired
NothingDone ==
    /\ LayerState' = LayerState
    /\ layers' = layers
    /\ siblingZ' = siblingZ
    /\ fx' = <<>>

\* C14: on an attached layer, a bringToFront() that immediately follows a
\* bringToFront() changes no z-index, requests no re-sort and fires no
\* setzindex event: the state after it is the state after the first.
C14_SecondBringToFrontNoOp ==
    [][ (call.op = "bringToFront" /\ call'.op = "bringToFront" /\ map # None)
            => NothingDone ]_vars

\* a bringToFront() that did nothing on a layer that an earlier
\* bringToFront() had put above sibling layers: a z-index of MaxZ + 1 is set by
\* no other call
C14_Witness ==
    /\ call.op = "bringToFront"
    /\ fx = <<>>
    /\ map # None
    /\ Len(layers) > 2
    /\ layers[Len(layers)] = This
    /\ zIndex = Some(MaxZ + 1)

----------------------------------------------------------------------------
(* C15 *)

\* The z-indexes of the members of the map's list
ListZ == {zOf(L, layers[i]) : i \in 1..Len(layers)}

MaxOf(S) == CHOOSE x \in S : \A y \in S : y <= x
MinOf(S) == CHOOSE x \in S : \A y \in S : x <= y

\* C15: bringToFront() (bringToBack()) changes nothing when the layer is
\* detached, alone in the map's list or already its last (first) member;
\* otherwise it sets the z-index to the maximum z-index of the list plus one
\* (the minimum minus one), after which the layer's z-index is strictly
\* above (below) every sibling's and the layer is the last (first) member of
\* the re-sorted list.
C15_BringToFrontOrBack ==
    [][ /\ call'.op = "bringToFront" =>
              IF map = None \/ Len(layers) = 1 \/ layers[Len(layers)] = This
              THEN NothingDone
              ELSE /\ zIndex' = Some(MaxOf(ListZ) + 1)
                   /\ \A n \in DOMAIN siblingZ : zIndex'[1] > siblingZ'[n]
                   /\ layers'[Len(layers')] = This
                   /\ \E i \in 1..Len(fx') : fx'[i].k = "map"
                                              /\ fx'[i].n = "_sortLayersByZIndex"
        /\ call'.op = "bringToBack" =>
              IF map = None \/ Len(layers) = 1 \/ layers[1] = This
              THEN NothingDone
              ELSE /\ zIndex' = Some(MinOf(ListZ) - 1)
                   /\ \A n \in DOMAIN siblingZ : zIndex'[1] < siblingZ'[n]
                   /\ layers'[1] = This
                   /\ \E i \in 1..Len(fx') : fx'[i].k = "map"
                                              /\ fx'[i].n = "_sortLayersByZIndex"
      ]_vars

\* a bringToBack() that moved the layer below two siblings
C15_Witness ==
    /\ call.op = "bringToBack"
    /\ fx # <<>>
    /\ Len(layers) > 2
    /\ layers[1] = This
    /\ \A n \in DOMAIN siblingZ : zIndex[1] < siblingZ[n]

----------------------------------------------------------------------------
(* C16 *)

\* What a setZIndex(z) call must show, in order: the re-sort request when
\* attached, the renderer call when a renderer exists, then the deliveries of
\* one setzindex event carrying z.
SetZIndexEffects(z) ==
    (IF map # None THEN << "_sortLayersByZIndex" >> ELSE << >>)
    \o (IF renderer # None THEN << <<"renderer.setZIndex", renderer[1], z>> >>
        ELSE << >>)
    \o (IF map # None THEN << <<"setzindex", "map", z>> >> ELSE << >>)
    \o << <<"setzindex", "local", z>> >>

SetZIndexStep(e) ==
    IF e.k = "map" THEN e.n
    ELSE IF e.k = "renderer" THEN <<"renderer." \o e.n, e.rid, e.z>>
    ELSE IF e.k = "event" THEN <<e.type, e.sink, e.param.zIndex>>
    ELSE e

\* C16: every setZIndex(z) call, nil or not and in every lifecycle state,
\* requests a re-sort of the map's layer list if and only if the layer is
\* attached, passes z to the renderer if and only if a renderer exists, and
\* fires exactly one setzindex event carrying z, after both.
C16_SetZIndexEffects ==
    call.op = "setZIndex" =>
        [i \in 1..Len(fx) |-> SetZIndexStep(fx[i])] = SetZIndexEffects(call.zIndex)

\* setZIndex(nil) on an attached layer with a renderer
C16_Witness ==
    /\ call.op = "setZIndex" /\ call.zIndex = None
    /\ map # None /\ renderer # None
    /\ Len(fx) = 4

----------------------------------------------------------------------------
(* C17 *)

\* C17: getZIndex() returns the value of the most recent setZIndex call, or 0
\* if that value was nil or no call was made, and the options hold a zIndex
\* key if and only if the most recent value was not nil.
C17_GetZIndexIsLastSet ==
    /\ getZIndex(L) = IF lastSetZ = None \/ lastSetZ[1] = None
                      THEN Some(0) ELSE lastSetZ[1]
    /\ (optZIndex # None) <=> (lastSetZ # None /\ lastSetZ[1] # None)

\* setZIndex(nil) on a layer whose renderer was earlier given a z-index
C17_Witness ==
    /\ call.op = "setZIndex" /\ call.zIndex = None
    /\ lastSetZ = Some(None)
    /\ getZIndex(L) = Some(0)
    /\ optZIndex = None

----------------------------------------------------------------------------
(* C18 *)

\* The geometries a mask may be: a point with a vector marker symbol, a
\* polygon or a multi-polygon
AcceptedAsMask(g) ==
    \/ g.type = "Point" /\ g.vectorMarker
    \/ g.type \in {"Polygon", "MultiPolygon"}

\* C18: setMask with a geometry that is not a point with a vector marker, a
\* polygon or a multi-polygon fails with an error and changes nothing: the
\* stored mask and options.mask are as before, the geometry is neither bound
\* to the layer nor restyled, and no redraw is requested.
C18_RejectedMaskChangesNothing ==
    [][ (call'.op = "setMask" /\ ~AcceptedAsMask(call'.mask)) =>
            /\ thrown' = Some(InvalidMask)
            /\ mask' = mask
            /\ optMask' = optMask
            /\ LayerState' = LayerState
            /\ fx' = <<>> ]_vars

\* a line string rejected by an attached layer that holds a mask and a
\* renderer that could be asked to redraw
C18_Witness ==
    /\ call.op = "setMask" /\ call.mask.type = "LineString" /\ ~call.zooming
    /\ thrown # None
    /\ mask # None /\ optMask = Some(toJSON(mask[1]))
    /\ map # None
    /\ renderer # None /\ rendererHasSetToRedraw(klass.registered)

----------------------------------------------------------------------------
(* C19 *)

\* The map's zoom is below a non-nil minZoom or above a non-nil maxZoom
OutOfZoomRange ==
    \/ minZoom # None /\ zoom < minZoom[1]
    \/ maxZoom # None /\ zoom > maxZoom[1]

----------------------------------------------------------------------------
(* C20 *)

\* C20: whenever no deferred show/hide callback is pending and at least one
\* show or hide event has fired, the most recently fired of them agrees with
\* the visible flag: show if it is true, hide if it is false.  Stated of the
\* states whose last call fired a show or hide event: there the most recently
\* fired one is the last one of that call.
C20_LastEventAgrees ==
    (pending = <<>> /\ LastVisibility(fx) # None) =>
        LastVisibility(fx) = (IF truthy(visible) THEN Some("show")
                                                 ELSE Some("hide"))

----------------------------------------------------------------------------
(* C21 *)

\* The renderers _initRenderer has instantiated so far
Created == 1..(nextRid - 1)

\* A renderer is live: instantiated, its event subscriptions wired on the
\* map, and not yet told to remove itself
Live(rid) == rid \in Created /\ Renderer(rid) \in subs /\ rid \notin removed

\* C21: at most one renderer created for the layer is live at any time, and
\* once the layer has been removed every renderer created for it is unwired
\* and has been told to remove itself.
C21_AtMostOneLiveRenderer ==
    /\ Cardinality({rid \in Created : Live(rid)}) <= 1
    /\ (map = None) =>
          \A rid \in Created : Renderer(rid) \notin subs /\ rid \in removed

====
